---- MODULE Spec2Model ----
(***************************************************************************)
(* Model of nakatoshi's main.rs: argument handling, the construction of    *)
(* the pattern list, and the parallel search                               *)
(*   repeat(BitcoinAddress::new).inspect(inc).map(create).find_any(test)   *)
(* run on a rayon pool, followed by the report of the result.              *)
(*                                                                         *)
(* Strings are sequences of one-character strings.  A worker is one pool   *)
(* thread running one leaf of find_any: it draws items from the repeat     *)
(* iterator through inspect and map, checks the shared `found` flag        *)
(* (take_while), tests the item (find_op), and on a hit keeps the item and *)
(* stores `found`.  install returns once every leaf has completed; the     *)
(* reducer keeps the leftmost kept item.                                   *)
(***************************************************************************)
EXTENDS Integers, Sequences, FiniteSets, TLC

VARIABLES
    mpc,              \* position of main
    args,             \* the command line: threads, regex, input_file and the flags
    num_threads,      \* main.rs:22
    regexes,          \* main.rs:27
    wpc,              \* position of each pool worker
    cand,             \* the item a worker holds between map and find_op
    item,             \* FindFolder.item of each worker's leaf
    found,            \* the AtomicBool shared by the leaves of find_any
    position,         \* progress.position(): the shared attempt counter
    bitcoin_address,  \* main.rs:47
    attempts,         \* main.rs:55
    stdout,           \* what print! has written
    generated,        \* history: number of BitcoinAddress::new calls
    posAtMatch,       \* history: the counter's value when a worker's find_op hit
    tested,           \* history: number of matches_with_any calls
    posAtClaim        \* history: the counter's value when `found` was first stored

vars == <<mpc, args, num_threads, regexes, wpc, cand, item, found, position,
          bitcoin_address, attempts, stdout, generated, posAtMatch, tested,
          posAtClaim>>

-----------------------------------------------------------------------------
(* Bounds *)

\* num_cpus::get() of the machine the program runs on
NumCpus == 2
\* largest number of bytes of an input file
MaxFileLen == 6
\* workers start no new candidate once the counter reached this, unless the
\* search is already over
MaxAttempts == 3

-----------------------------------------------------------------------------
(* Values *)

\* Option<T>: None is the empty sequence, Some(x) the sequence of x alone
None == <<>>
Some(x) == <<x>>
Unwrap(o) == o[1]

LF == "\n"

\* ASCII lower-casing of one character (the letters in use)
to_lowercase_char(c) ==
    CASE c = "A" -> "a" [] c = "B" -> "b" [] c = "C" -> "c" [] c = "Q" -> "q"
      [] c = "X" -> "x" [] OTHER -> c

to_lowercase(s) == [i \in 1..Len(s) |-> to_lowercase_char(s[i])]

\* ASCII upper-casing of one character (the letters in use)
to_uppercase_char(c) ==
    CASE c = "a" -> "A" [] c = "b" -> "B" [] c = "c" -> "C" [] c = "q" -> "Q"
      [] c = "x" -> "X" [] OTHER -> c

to_uppercase(s) == [i \in 1..Len(s) |-> to_uppercase_char(s[i])]

\* String::len: the number of bytes (every character here is ASCII)
StrLen(s) == Len(s)

Digits == {"0", "1", "2", "3", "4", "5", "6", "7", "8", "9"}

DigitValue(c) ==
    CASE c = "0" -> 0 [] c = "1" -> 1 [] c = "2" -> 2 [] c = "3" -> 3
      [] c = "4" -> 4 [] c = "5" -> 5 [] c = "6" -> 6 [] c = "7" -> 7
      [] c = "8" -> 8 [] c = "9" -> 9

RECURSIVE DecimalValue(_, _)
DecimalValue(s, acc) ==
    IF s = <<>> THEN acc ELSE DecimalValue(Tail(s), 10 * acc + DigitValue(Head(s)))

\* str::parse::<usize>().ok(): an optional "+", then one or more digits
parse_usize(s) ==
    LET body == IF s # <<>> /\ Head(s) = "+" THEN Tail(s) ELSE s
    IN  IF body # <<>> /\ \A i \in 1..Len(body) : body[i] \in Digits
        THEN Some(DecimalValue(body, 0))
        ELSE None

RECURSIVE SplitLines(_, _, _)
SplitLines(bytes, cur, acc) ==
    IF bytes = <<>>
    THEN IF cur = <<>> THEN acc ELSE Append(acc, cur)
    ELSE IF Head(bytes) = LF
         THEN SplitLines(Tail(bytes), <<>>, Append(acc, cur))
         ELSE SplitLines(Tail(bytes), Append(cur, Head(bytes)), acc)

\* BufRead::lines().collect(): one string per line, the terminator removed,
\* no string for the empty remainder after the last terminator
lines(bytes) == SplitLines(bytes, <<>>, <<>>)

\* an insertion that puts x before the elements of equal key
InsertByLenUnstable(x, sorted) ==
    LET after == {i \in 1..Len(sorted) : StrLen(sorted[i]) < StrLen(x)}
        k == IF after = {} THEN 0 ELSE CHOOSE i \in after : \A j \in after : j <= i
    IN  SubSeq(sorted, 1, k) \o <<x>> \o SubSeq(sorted, k + 1, Len(sorted))

\* insertion of x behind every element whose key is not greater
InsertByLen(x, sorted) ==
    LET after == {i \in 1..Len(sorted) : StrLen(sorted[i]) <= StrLen(x)}
        k == IF after = {} THEN 0 ELSE CHOOSE i \in after : \A j \in after : j <= i
    IN  SubSeq(sorted, 1, k) \o <<x>> \o SubSeq(sorted, k + 1, Len(sorted))

RECURSIVE SortFrom(_, _)
SortFrom(rest, sorted) ==
    IF rest = <<>> THEN sorted ELSE SortFrom(Tail(rest), InsertByLen(Head(rest), sorted))

\* Vec::sort_by_key(|a| a.len()): a stable sort
sort_by_key_len(v) == SortFrom(v, <<>>)

\* get_regexes_from_file, for a file that opened
get_regexes_from_file(bytes) == sort_by_key_len(lines(bytes))

\* a regular-expression search of a literal pattern: the pattern occurs
\* somewhere in the text
Contains(text, pat) ==
    \E i \in 0..(Len(text) - Len(pat)) : SubSeq(text, i + 1, i + Len(pat)) = pat

matches_with(address, pattern, is_case_sensitive) ==
    IF is_case_sensitive
    THEN Contains(address, pattern)
    ELSE Contains(to_lowercase(address), to_lowercase(pattern))

matches_with_any(address, patterns, is_case_sensitive) ==
    \E i \in 1..Len(patterns) : matches_with(address, patterns[i], is_case_sensitive)

HexChars ==
    <<"0", "1", "2", "3", "4", "5", "6", "7", "8", "9", "a", "b", "c", "d", "e", "f">>

\* the two lower-case hexadecimal digits of one byte
HexByte(b) == <<HexChars[(b \div 16) + 1], HexChars[(b % 16) + 1]>>

RECURSIVE Hex(_)
Hex(bytes) == IF bytes = <<>> THEN <<>> ELSE HexByte(Head(bytes)) \o Hex(Tail(bytes))

\* the serialized point of a public key: a tag byte and the 32-byte x
\* coordinate, followed by the 32-byte y coordinate when not compressed
Serialize(public_key) ==
    IF public_key.compressed
    THEN <<2>> \o [i \in 1..32 |-> public_key.x]
    ELSE <<4>> \o [i \in 1..32 |-> public_key.x] \o [i \in 1..32 |-> public_key.y]

\* PublicKey::to_string: the hexadecimal encoding of the serialized point
public_key_to_string(public_key) == Hex(Serialize(public_key))

\* the human-readable part and separator of a bech32 address, and the
\* witness version
Bech32Prefix == <<"b", "c", "1", "q">>

\* BitcoinAddress::new(&secp, is_compressed, is_bech32), for the key pair
\* whose address body is `body`
BitcoinAddress_new(body, compressed, bech32) ==
    [private_key |-> "key",
     public_key |-> [compressed |-> compressed, x |-> 0, y |-> 0],
     address |-> IF bech32 THEN Bech32Prefix \o body ELSE body]

\* the syntax of a pattern: its parentheses are balanced
RECURSIVE Balanced(_, _)
Balanced(pattern, depth) ==
    IF pattern = <<>> THEN depth = 0
    ELSE IF Head(pattern) = "(" THEN Balanced(Tail(pattern), depth + 1)
    ELSE IF Head(pattern) = ")" THEN depth > 0 /\ Balanced(Tail(pattern), depth - 1)
    ELSE Balanced(Tail(pattern), depth)

is_valid_regex(pattern) == Balanced(pattern, 0)

-----------------------------------------------------------------------------
(* Inputs *)

\* values of --threads; None: the option is absent
ThreadsArgs ==
    {None, Some(<<"0">>), Some(<<"2">>), Some(<<"+", "1">>), Some(<<"1", "x">>)}

\* values of --regex
RegexArgs == {Some(<<"a">>), Some(<<"A", "b">>)}

FileChars == {"a", "b", LF}

RECURSIVE StringsUpTo(_, _)
StringsUpTo(chars, n) ==
    IF n = 0 THEN {<<>>}
    ELSE LET shorter == StringsUpTo(chars, n - 1)
         IN  shorter \cup {Append(s, c) : s \in {t \in shorter : Len(t) = n - 1}, c \in chars}

\* the input file: whether File::open succeeds, and the bytes it holds
NoFile == [readable |-> FALSE, bytes |-> <<>>]
File(b) == [readable |-> TRUE, bytes |-> b]

\* every file of at most MaxFileLen bytes
Files == {File(b) : b \in StringsUpTo(FileChars, MaxFileLen)}

\* the files the whole program is run on: an empty file, a file of one empty
\* line, two files of several patterns, a file whose pattern no address has,
\* a file with a malformed pattern, and a file that cannot be opened
SearchFiles ==
    {File(<<>>),
     File(<<LF>>),
     File(<<"b", "a", LF, "a", LF>>),
     File(<<"a", "b", LF, LF, "A">>),
     File(<<"b", "a", LF>>),
     File(<<"a", LF, "(", "b", LF>>),
     NoFile}

\* the address bodies BitcoinAddress::new can derive
Addresses == {<<"a", "b">>, <<"A", "b">>, <<"b", "b">>}

\* the values of --threads every pattern input is run with
CommonThreadsArgs == {None, Some(<<"2">>), Some(<<"+", "1">>)}

\* --regex and --input-file exclude each other and one of them is given;
\* the default address style; every value of --threads with a --regex, the
\* common ones with an input file
ArgSets ==
    {[threads |-> t, regex |-> r, input_file |-> NoFile, case_sensitive |-> c,
      bech32 |-> FALSE, uncompressed |-> FALSE] :
        t \in ThreadsArgs, r \in RegexArgs, c \in BOOLEAN}
    \cup
    {[threads |-> t, regex |-> None, input_file |-> f, case_sensitive |-> c,
      bech32 |-> FALSE, uncompressed |-> FALSE] :
        t \in CommonThreadsArgs, f \in SearchFiles, c \in BOOLEAN}

\* the command lines that name an input file, over every file
FileArgSets ==
    {[threads |-> None, regex |-> None, input_file |-> f, case_sensitive |-> FALSE,
      bech32 |-> FALSE, uncompressed |-> FALSE] :
        f \in Files}

\* the command lines of every address style, for pools of one and two workers
StyleArgSets ==
    {[threads |-> t, regex |-> r, input_file |-> NoFile, case_sensitive |-> FALSE,
      bech32 |-> b, uncompressed |-> u] :
        t \in {Some(<<"+", "1">>), Some(<<"2">>)}, r \in {Some(<<"a">>), Some(<<"q", "a">>)},
        b \in BOOLEAN, u \in BOOLEAN}

-----------------------------------------------------------------------------
(* main *)

InitWith(argsets) ==
    /\ mpc = "threads"
    /\ args \in argsets
    /\ num_threads = 0
    /\ regexes = <<>>
    /\ wpc = <<>>
    /\ cand = <<>>
    /\ item = <<>>
    /\ found = FALSE
    /\ position = 0
    /\ bitcoin_address = None
    /\ attempts = 0
    /\ stdout = <<>>
    /\ generated = 0
    /\ posAtMatch = <<>>
    /\ tested = 0
    /\ posAtClaim = 0

Init == InitWith(ArgSets)

\* main.rs:18
is_case_sensitive_flipped == ~args.case_sensitive

is_case_sensitive == args.case_sensitive

\* main.rs:19
is_bech32 == args.bech32

\* main.rs:20
is_compressed_flipped == args.uncompressed

is_compressed == ~args.uncompressed

\* main.rs:22-25
ParseThreads ==
    /\ mpc = "threads"
    /\ num_threads' =
          IF args.threads # None /\ parse_usize(Unwrap(args.threads)) # None
          THEN Unwrap(parse_usize(Unwrap(args.threads)))
          ELSE NumCpus
    /\ mpc' = "regexes"
    /\ UNCHANGED <<args, regexes, wpc, cand, item, found, position,
                   bitcoin_address, attempts, stdout, generated, posAtMatch,
                   tested, posAtClaim>>

\* a file that cannot be opened reported as a result object
GetRegexesReportError ==
    /\ mpc = "regexes"
    /\ IF args.regex # None
       THEN /\ regexes' = <<Unwrap(args.regex)>>
            /\ mpc' = "pool"
            /\ UNCHANGED stdout
       ELSE IF ~args.input_file.readable
            THEN /\ regexes' = regexes
                 /\ mpc' = "panic"
                 /\ stdout' = Append(stdout, [error |-> "unreadable"])
            ELSE /\ regexes' = get_regexes_from_file(args.input_file.bytes)
                 /\ mpc' = "pool"
                 /\ UNCHANGED stdout
    /\ UNCHANGED <<args, num_threads, wpc, cand, item, found, position,
                   bitcoin_address, attempts, generated, posAtMatch,
                   tested, posAtClaim>>

\* main.rs:27-33 and 68-79
GetRegexes ==
    /\ mpc = "regexes"
    /\ IF args.regex # None
       THEN /\ regexes' = <<Unwrap(args.regex)>>
            /\ mpc' = "pool"
       ELSE IF ~args.input_file.readable
            THEN /\ regexes' = regexes
                 /\ mpc' = "panic"
            ELSE /\ regexes' = get_regexes_from_file(args.input_file.bytes)
                 /\ mpc' = "pool"
    /\ UNCHANGED <<args, num_threads, wpc, cand, item, found, position,
                   bitcoin_address, attempts, stdout, generated, posAtMatch,
                   tested, posAtClaim>>

\* ThreadPoolBuilder::num_threads(0) asks for the default number of threads
PoolSize == IF num_threads = 0 THEN NumCpus ELSE num_threads

\* main.rs:35-47: the pool is built and install hands it the search
Install ==
    /\ mpc = "pool"
    /\ wpc' = [w \in 1..PoolSize |-> "idle"]
    /\ cand' = [w \in 1..PoolSize |-> None]
    /\ item' = [w \in 1..PoolSize |-> None]
    /\ posAtMatch' = [w \in 1..PoolSize |-> 0]
    /\ mpc' = "install"
    /\ UNCHANGED <<args, num_threads, regexes, found, position,
                   bitcoin_address, attempts, stdout, generated,
                   tested, posAtClaim>>

Workers == DOMAIN wpc

-----------------------------------------------------------------------------
(* one worker: a leaf of find_any over the repeat iterator *)

\* the leaf starts: a full consumer completes at once
Start(w) ==
    /\ wpc[w] = "idle"
    /\ wpc' = [wpc EXCEPT ![w] = IF found THEN "done" ELSE "inspect"]
    /\ UNCHANGED <<mpc, args, num_threads, regexes, cand, item, found, position,
                   bitcoin_address, attempts, stdout, generated, posAtMatch,
                   tested, posAtClaim>>

\* an increment that is lost while another worker is between its own
\* increment and its generation
InspectLost(w) ==
    /\ wpc[w] = "inspect"
    /\ position < MaxAttempts \/ found
    /\ position' = IF \E v \in Workers : wpc[v] = "map" THEN position ELSE position + 1
    /\ wpc' = [wpc EXCEPT ![w] = "map"]
    /\ UNCHANGED <<mpc, args, num_threads, regexes, cand, item, found,
                   bitcoin_address, attempts, stdout, generated, posAtMatch,
                   tested, posAtClaim>>

\* an increment that is skipped once the search is over
InspectUnlessFound(w) ==
    /\ wpc[w] = "inspect"
    /\ position < MaxAttempts \/ found
    /\ position' = IF found THEN position ELSE position + 1
    /\ wpc' = [wpc EXCEPT ![w] = "map"]
    /\ UNCHANGED <<mpc, args, num_threads, regexes, cand, item, found,
                   bitcoin_address, attempts, stdout, generated, posAtMatch,
                   tested, posAtClaim>>

\* main.rs:49
Inspect(w) ==
    /\ wpc[w] = "inspect"
    /\ position < MaxAttempts \/ found
    /\ position' = position + 1
    /\ wpc' = [wpc EXCEPT ![w] = "map"]
    /\ UNCHANGED <<mpc, args, num_threads, regexes, cand, item, found,
                   bitcoin_address, attempts, stdout, generated, posAtMatch,
                   tested, posAtClaim>>

\* a generation that waits while another worker holds a candidate it has
\* not finished with
MapExclusive(w) ==
    /\ wpc[w] = "map"
    /\ \A v \in Workers \ {w} : wpc[v] \notin {"take_while", "find_op"}
    /\ \E a \in Addresses :
          cand' = [cand EXCEPT ![w] = Some(BitcoinAddress_new(a, is_compressed, is_bech32))]
    /\ generated' = generated + 1
    /\ wpc' = [wpc EXCEPT ![w] = "take_while"]
    /\ UNCHANGED <<mpc, args, num_threads, regexes, item, found, position,
                   bitcoin_address, attempts, stdout, posAtMatch,
                   tested, posAtClaim>>

\* main.rs:50
Map(w) ==
    /\ wpc[w] = "map"
    /\ \E a \in Addresses :
          cand' = [cand EXCEPT ![w] = Some(BitcoinAddress_new(a, is_compressed, is_bech32))]
    /\ generated' = generated + 1
    /\ wpc' = [wpc EXCEPT ![w] = "take_while"]
    /\ UNCHANGED <<mpc, args, num_threads, regexes, item, found, position,
                   bitcoin_address, attempts, stdout, posAtMatch,
                   tested, posAtClaim>>

\* a leaf that never looks at the flag
TakeWhileBlind(w) ==
    /\ wpc[w] = "take_while"
    /\ wpc' = [wpc EXCEPT ![w] = "find_op"]
    /\ UNCHANGED <<mpc, args, num_threads, regexes, cand, item, found, position,
                   bitcoin_address, attempts, stdout, generated, posAtMatch,
                   tested, posAtClaim>>

\* the flag read the wrong way round
TakeWhileInverted(w) ==
    /\ wpc[w] = "take_while"
    /\ wpc' = [wpc EXCEPT ![w] = IF found THEN "find_op" ELSE "done"]
    /\ UNCHANGED <<mpc, args, num_threads, regexes, cand, item, found, position,
                   bitcoin_address, attempts, stdout, generated, posAtMatch,
                   tested, posAtClaim>>

\* find_any stops a leaf whose next item arrives after another leaf's hit
TakeWhile(w) ==
    /\ wpc[w] = "take_while"
    /\ wpc' = [wpc EXCEPT ![w] = IF found THEN "done" ELSE "find_op"]
    /\ UNCHANGED <<mpc, args, num_threads, regexes, cand, item, found, position,
                   bitcoin_address, attempts, stdout, generated, posAtMatch,
                   tested, posAtClaim>>

\* a test that accepts every candidate
FindOpAny(w) ==
    /\ wpc[w] = "find_op"
    /\ item' = [item EXCEPT ![w] = cand[w]]
    /\ posAtMatch' = [posAtMatch EXCEPT ![w] = position]
    /\ wpc' = [wpc EXCEPT ![w] = "store"]
    /\ UNCHANGED <<mpc, args, num_threads, regexes, cand, found, position,
                   bitcoin_address, attempts, stdout, generated, posAtClaim>>
    /\ tested' = tested + 1

\* main.rs:51
FindOp(w) ==
    /\ wpc[w] = "find_op"
    /\ IF matches_with_any(Unwrap(cand[w]).address, regexes, is_case_sensitive)
       THEN /\ item' = [item EXCEPT ![w] = cand[w]]
            /\ posAtMatch' = [posAtMatch EXCEPT ![w] = position]
            /\ wpc' = [wpc EXCEPT ![w] = "store"]
       ELSE /\ wpc' = [wpc EXCEPT ![w] = "inspect"]
            /\ UNCHANGED <<item, posAtMatch>>
    /\ UNCHANGED <<mpc, args, num_threads, regexes, cand, found, position,
                   bitcoin_address, attempts, stdout, generated, posAtClaim>>
    /\ tested' = tested + 1

\* the leaf that kept an item stores the flag and completes
StoreFound(w) ==
    /\ wpc[w] = "store"
    /\ found' = TRUE
    /\ wpc' = [wpc EXCEPT ![w] = "done"]
    /\ UNCHANGED <<mpc, args, num_threads, regexes, cand, item, position,
                   bitcoin_address, attempts, stdout, generated, posAtMatch, tested>>
    /\ posAtClaim' = IF found THEN posAtClaim ELSE position

WorkerStep(w) ==
    \/ Start(w)
    \/ Inspect(w)
    \/ Map(w)
    \/ TakeWhile(w)
    \/ FindOp(w)
    \/ StoreFound(w)

-----------------------------------------------------------------------------
(* main, after the search *)

Kept == {w \in Workers : item[w] # None}

\* the reducer of find_any: left.or(right)
Leftmost == CHOOSE w \in Kept : \A v \in Kept : w <= v

\* a result slot every hit writes, read before the leaves have completed
ReturnEarly ==
    /\ mpc = "install"
    /\ \E w \in Kept : bitcoin_address' = item[w]
    /\ mpc' = IF \A w \in Workers : wpc[w] = "done" THEN "position" ELSE "install"
    /\ UNCHANGED <<args, num_threads, regexes, wpc, cand, item, found, position,
                   attempts, stdout, generated, posAtMatch,
                   tested, posAtClaim>>

\* main.rs:47-53: install returns when every leaf has completed
Return ==
    /\ mpc = "install"
    /\ \A w \in Workers : wpc[w] = "done"
    /\ IF Kept = {}
       THEN /\ mpc' = "panic"
            /\ UNCHANGED bitcoin_address
       ELSE /\ bitcoin_address' = item[Leftmost]
            /\ mpc' = "position"
    /\ UNCHANGED <<args, num_threads, regexes, wpc, cand, item, found, position,
                   attempts, stdout, generated, posAtMatch,
                   tested, posAtClaim>>

\* the counter read after a finish that clears it
ReadPositionAfterClear ==
    /\ mpc = "position"
    /\ attempts' = 0
    /\ mpc' = "print"
    /\ UNCHANGED <<args, num_threads, regexes, wpc, cand, item, found, position,
                   bitcoin_address, stdout, generated, posAtMatch,
                   tested, posAtClaim>>

\* the counter's value at the winner's hit instead of its value now
ReadPositionAtMatch ==
    /\ mpc = "position"
    /\ attempts' = posAtMatch[Leftmost]
    /\ mpc' = "print"
    /\ UNCHANGED <<args, num_threads, regexes, wpc, cand, item, found, position,
                   bitcoin_address, stdout, generated, posAtMatch,
                   tested, posAtClaim>>

\* main.rs:55-56
ReadPosition ==
    /\ mpc = "position"
    /\ attempts' = position
    /\ mpc' = "print"
    /\ UNCHANGED <<args, num_threads, regexes, wpc, cand, item, found, position,
                   bitcoin_address, stdout, generated, posAtMatch,
                   tested, posAtClaim>>

\* main.rs:58-65
Report ==
    /\ mpc = "print"
    /\ stdout' = Append(stdout,
          [private_key |-> Unwrap(bitcoin_address).private_key,
           public_key |-> public_key_to_string(Unwrap(bitcoin_address).public_key),
           address |-> Unwrap(bitcoin_address).address,
           attempts |-> attempts])
    /\ mpc' = "exit"
    /\ UNCHANGED <<args, num_threads, regexes, wpc, cand, item, found, position,
                   bitcoin_address, attempts, generated, posAtMatch,
                   tested, posAtClaim>>

MainStep ==
    \/ ParseThreads
    \/ GetRegexes
    \/ Install
    \/ Return
    \/ ReadPosition
    \/ Report

Next ==
    \/ MainStep
    \/ \E w \in Workers : WorkerStep(w)

Spec == Init /\ [][Next]_vars

\* the start of main alone, over every input file
InitFile == InitWith(FileArgSets)

NextFile ==
    \/ ParseThreads
    \/ GetRegexes

SpecFile == InitFile /\ [][NextFile]_vars

\* the whole program over every address style
InitStyle == InitWith(StyleArgSets)

SpecStyle == InitStyle /\ [][Next]_vars


\* the pool threads are scheduled fairly, and so is main
MaxPool == IF NumCpus > 2 THEN NumCpus ELSE 2

Fairness ==
    /\ WF_vars(MainStep)
    /\ \A w \in 1..MaxPool : WF_vars(w \in Workers /\ WorkerStep(w))

\* pools of one, of two and of NumCpus workers; a pattern, a file of two
\* patterns, a file whose pattern no address has, an empty file
FairArgSets ==
    {a \in ArgSets :
        /\ a.threads \in {None, Some(<<"+", "1">>), Some(<<"2">>)}
        /\ a.regex \in {None, Some(<<"a">>)}
        /\ a.input_file \in {NoFile, File(<<>>), File(<<"b", "a", LF>>),
                              File(<<"b", "a", LF, "a", LF>>)}}

FairInit == InitWith(FairArgSets)

FairSpec == FairInit /\ [][Next]_vars /\ Fairness

-----------------------------------------------------------------------------
(* Properties *)

\* the search is RUNNING while install has not returned
Running == mpc = "install"

\* TERMINATED: install has returned a candidate
Terminated == mpc \in {"position", "print", "exit"}

Matches(a) == matches_with_any(a, regexes, args.case_sensitive)

FromFile == args.regex = None /\ args.input_file.readable

Count(seq, x) == Cardinality({i \in DOMAIN seq : seq[i] = x})

IsPermutation(s, t) ==
    /\ Len(s) = Len(t)
    /\ \A i \in DOMAIN s : Count(s, s[i]) = Count(t, s[i])

AscendingByLen(s) == \A i \in 1..(Len(s) - 1) : StrLen(s[i]) <= StrLen(s[i + 1])

OfLen(s, n) == LET HasLen(x) == StrLen(x) = n IN SelectSeq(s, HasLen)

NonEmptyLines(bytes) == LET NonEmpty(x) == x # <<>> IN SelectSeq(lines(bytes), NonEmpty)

\* C1: when the search has terminated, the recorded candidate is one a worker
\* generated and kept, and its address matches a pattern of the Pattern Set
\* under the configured case policy; the program never fails after the search
\* has started, so the search never ends without such a candidate.
C1_ResultMatches ==
    /\ Terminated =>
          /\ bitcoin_address # None
          /\ Matches(Unwrap(bitcoin_address).address)
          /\ \E w \in Workers : cand[w] = bitcoin_address /\ item[w] = bitcoin_address
    /\ mpc = "panic" => Workers = {}

C1_Witness ==
    /\ mpc = "exit"
    /\ regexes = << <<"a">>, <<"b", "a">> >>
    /\ ~args.case_sensitive
    /\ Unwrap(bitcoin_address).address = <<"A", "b">>

\* C2: the recorded candidate is one worker's kept item, it is never replaced
\* once recorded, also when several workers kept a hit, and the result is
\* written exactly once by the time the program exits.
C2_SingleWinner ==
    /\ [][/\ bitcoin_address # None => bitcoin_address' = bitcoin_address
          /\ Len(stdout') <= 1]_vars
    /\ [](mpc = "exit" =>
            /\ Len(stdout) = 1
            /\ stdout[1].address = Unwrap(bitcoin_address).address
            /\ bitcoin_address = item[Leftmost])

C2_Witness ==
    /\ mpc = "exit"
    /\ Cardinality(Kept) >= 2
    /\ \E v, w \in Kept : item[v] # item[w]

\* C3: under fair scheduling, once a worker holds a matching candidate the
\* search terminates, main is released and exits, and the reported attempts
\* is at least 1.
MatchGenerated ==
    /\ Running
    /\ \E w \in Workers :
          /\ wpc[w] \in {"take_while", "find_op"}
          /\ Matches(Unwrap(cand[w]).address)

C3_Terminates == MatchGenerated ~> (mpc = "exit" /\ attempts >= 1)

C3_Witness ==
    /\ mpc = "exit"
    /\ Len(wpc) >= 2
    /\ attempts >= 1
    /\ Cardinality(Kept) = 1

\* C4: the attempt counter starts at 0, every change of it is an increase by
\* exactly 1, and every increment by a worker takes effect.
C4_CounterMonotone ==
    /\ position = 0
    /\ [][/\ position' # position => position' = position + 1
          /\ \A w \in Workers :
                (wpc[w] = "inspect" /\ wpc'[w] = "map") => position' = position + 1]_vars

C4_Witness ==
    /\ Running
    /\ Len(wpc) >= 2
    /\ \A w \in Workers : wpc[w] = "map"
    /\ position = Len(wpc)

\* C5: the counter counts the candidate generations, each once (it runs ahead
\* only by the workers that have incremented and not yet generated), so the
\* reported attempts equals the number of candidates all workers generated.
C5_AttemptsCountGenerations ==
    /\ position = generated + Cardinality({w \in Workers : wpc[w] = "map"})
    /\ mpc \in {"print", "exit"} => attempts = generated

C5_Witness ==
    /\ mpc = "exit"
    /\ attempts > posAtMatch[Leftmost]
    /\ \E w \in Workers : item[w] = None /\ cand[w] # None

\* C6 as stated: the reported attempts is the value the counter had at the
\* moment of the winning worker's hit.
C6_Original == mpc \in {"print", "exit"} => attempts = posAtMatch[Leftmost]

\* C6: the reported attempts is the counter's value read after install has
\* returned, when every worker has stopped; it is never below the value the
\* counter had at the winning worker's hit.
C6_AttemptsReadAfterReturn ==
    mpc \in {"print", "exit"} =>
        /\ attempts = position
        /\ attempts >= posAtMatch[Leftmost]
        /\ \A w \in Workers : wpc[w] = "done"
        /\ bitcoin_address = item[Leftmost]

C6_Witness ==
    /\ mpc = "exit"
    /\ attempts > posAtMatch[Leftmost]
    /\ Len(wpc) >= 2

\* C7: the Pattern Set made from an input file holds exactly one pattern per
\* non-empty line of the file, in ascending order of length.
C7_Original ==
    (mpc = "pool" /\ FromFile) =>
        /\ IsPermutation(regexes, NonEmptyLines(args.input_file.bytes))
        /\ AscendingByLen(regexes)

\* C8: normalization is a stable sort by length and is idempotent: the Pattern
\* Set is a permutation of the file's lines in non-decreasing length order,
\* lines of equal length keep their order, sorting it again changes nothing,
\* and ["abcd", "ab"] becomes ["ab", "abcd"].
C8_StableSort ==
    /\ (mpc = "pool" /\ FromFile) =>
          LET input == lines(args.input_file.bytes)
          IN  /\ IsPermutation(regexes, input)
              /\ AscendingByLen(regexes)
              /\ \A n \in 0..MaxFileLen : OfLen(regexes, n) = OfLen(input, n)
              /\ sort_by_key_len(regexes) = regexes
    /\ sort_by_key_len(<< <<"a", "b", "c", "d">>, <<"a", "b">> >>)
          = << <<"a", "b">>, <<"a", "b", "c", "d">> >>

C8_Witness ==
    /\ mpc = "pool"
    /\ args.input_file.bytes = <<"a", "b", LF, "b", LF, "a">>
    /\ regexes = << <<"b">>, <<"a">>, <<"a", "b">> >>

\* C9: the Pattern Set is non-empty whenever the search is RUNNING.
C9_Original == Running => regexes # <<>>

\* C10: a --threads value that is not a number is fatal before the search:
\* the program never gets as far as building the pool or RUNNING.
InvalidThreads == args.threads # None /\ parse_usize(Unwrap(args.threads)) = None

C10_Original == InvalidThreads => mpc \in {"threads", "panic"}

\* C11: --threads 0 is fatal before the search: no worker pool is built and
\* the search never becomes RUNNING.
ZeroThreads == args.threads # None /\ parse_usize(Unwrap(args.threads)) = Some(0)

C11_Original == ZeroThreads => (Workers = {} /\ ~Running)

\* C12: a malformed pattern is rejected when the Pattern Set is constructed:
\* with one in the set the search is never RUNNING and no worker generates
\* or tests a candidate.
HasMalformed == \E i \in DOMAIN regexes : ~is_valid_regex(regexes[i])

C12_Original == HasMalformed => (~Running /\ generated = 0)

\* C13: nothing is on standard output before the search has terminated, a run
\* that ends in a configuration error has written no result object, and a
\* run that exits has written exactly one.
C13_NoPartialResult ==
    /\ ~Terminated => stdout = <<>>
    /\ mpc = "panic" => stdout = <<>>
    /\ mpc \in {"position", "print"} => stdout = <<>>
    /\ mpc = "exit" => Len(stdout) = 1

C13_Witness ==
    /\ mpc = "panic"
    /\ args.regex = None
    /\ ~args.input_file.readable
    /\ stdout = <<>>

StartsWith(s, prefix) == Len(s) >= Len(prefix) /\ SubSeq(s, 1, Len(prefix)) = prefix

Encoded(c) ==
    /\ Len(public_key_to_string(c.public_key)) = (IF args.uncompressed THEN 130 ELSE 66)
    /\ args.bech32 => StartsWith(c.address, Bech32Prefix)

\* C14: for every address style, every generated candidate, the recorded one
\* and the reported one included, has a public key encoding of length 66
\* unless --uncompressed is given and of length 130 when it is, and an address
\* that starts with "bc1q" when --bech32 is given.
C14_EncodingByStyle ==
    /\ \A w \in Workers : cand[w] # None => Encoded(Unwrap(cand[w]))
    /\ bitcoin_address # None => Encoded(Unwrap(bitcoin_address))
    /\ mpc = "exit" =>
          /\ Len(stdout[1].public_key) = (IF args.uncompressed THEN 130 ELSE 66)
          /\ args.bech32 => StartsWith(stdout[1].address, Bech32Prefix)

C14_Witness ==
    /\ mpc = "exit"
    /\ args.uncompressed
    /\ args.bech32
    /\ Len(stdout[1].public_key) = 130
    /\ StartsWith(stdout[1].address, Bech32Prefix)

C16_Original == position <= generated

\* C17: after the TERMINATED transition is claimed (the flag is stored) a
\* worker whose next candidate arrives stops without testing it, and the
\* counter grows by at most worker_count - 1.
C17_BoundedCancellation ==
    /\ [](found => position <= posAtClaim + Cardinality(Workers) - 1)
    /\ [][\A w \in Workers :
            (found /\ wpc[w] = "take_while" /\ wpc'[w] # "take_while")
               => wpc'[w] = "done"]_vars

C17_Witness ==
    /\ found
    /\ Cardinality(Workers) >= 2
    /\ position = posAtClaim + Cardinality(Workers) - 1
    /\ \A w \in Workers : wpc[w] = "done"

\* the bound of the model on the counter stops a worker, not another worker
Capped(w) == wpc[w] = "inspect" /\ position >= MaxAttempts /\ ~found

\* C18: while the search is RUNNING every worker that has not completed can
\* take its next step whatever the other workers are doing, and a step of
\* one worker changes no other worker's position, candidate or kept item.
C18_NoWaiting ==
    /\ [](Running =>
            \A w \in Workers :
               (wpc[w] # "done" /\ ~Capped(w)) => ENABLED WorkerStep(w))
    /\ [][Running =>
            Cardinality({w \in Workers :
               <<wpc[w], cand[w], item[w]>> # <<wpc'[w], cand'[w], item'[w]>>}) <= 1]_vars

C18_Witness ==
    /\ Running
    /\ Cardinality(Workers) >= 2
    /\ wpc[1] = "map"
    /\ wpc[2] = "find_op"

\* C19: the counter is never below the number of candidates tested so far,
\* and the reported attempts is at least the number of tests and at least 1.
C19_CountedBeforeTested ==
    /\ position >= tested
    /\ mpc \in {"print", "exit"} =>
          /\ attempts >= tested
          /\ tested >= 1
          /\ attempts >= 1

C19_Witness ==
    /\ mpc = "exit"
    /\ tested >= 2
    /\ attempts > tested

====
